---------------------------- MODULE Spec2Model ----------------------------
(***************************************************************************)
(* Model of src/main.rs: the CPU "ECG" terminal plotter.                   *)
(*                                                                         *)
(* f32 quantities (load, phase, pulse, samples) are fixed-point integers   *)
(* in thousandths; products are rescaled by Mul (floor of the exact        *)
(* product), sin is Bhaskara's rational approximation (abs. error below    *)
(* 0.002).  Durations are whole milliseconds.  A terminal size is a pair   *)
(* <<width, height>>.  The sampler, the terminal and the keyboard are the   *)
(* environment: every call the program makes to them draws its result      *)
(* from the sets held in env, fixed for a run by the initial condition.    *)
(***************************************************************************)
EXTENDS Integers, Sequences, FiniteSets, TLC

VARIABLES
    pc,            \* "loop": at the loop head (main.rs:216); "exited": main returned
    result,        \* "running", "ok" (main returned Ok) or "err" (main returned Err)
    raw_mode,      \* terminal raw mode enabled
    alt_screen,    \* alternate screen entered
    cursor_hidden, \* cursor hidden
    fps, phase, pulse, samples, tick, last_size, seeded,   \* locals of main
    elapsed,       \* now - last_draw, in ms, as the next loop head will see it
    pressed,       \* a quit key is in the terminal's input queue, not yet read
    key,           \* the event the latest loop iteration read, and fps before it
    obs,           \* the values the latest Drawing tick read and computed
    resets,        \* the ticks on which pulse was set to PULSE_PEAK
    frame,         \* what the latest call of render queued on stdout
    first,         \* the first sample computed, and the frames drawn so far
    env            \* what the environment can deliver during this run

vars == <<pc, result, raw_mode, alt_screen, cursor_hidden, fps, phase, pulse,
          samples, tick, last_size, seeded, elapsed, pressed, key, obs, resets,
          frame, first, env>>

-----------------------------------------------------------------------------
(* Program constants (main.rs:10-42), f32 values in thousandths.           *)
HEADER_ROWS == 1
FOOTER_ROWS == 1
LEFT_GUTTER == 5
MIN_PLOT_HEIGHT == 4
MIN_PLOT_WIDTH == 10
MILLIS_PER_SEC == 1000
FPS_DEFAULT == 30
FPS_MIN == 10
FPS_MAX == 60
FPS_STEP == 5
PHASE_DELTA_BASE == 250
PHASE_DELTA_LOAD_SCALE == 700
PHASE_WRAP == 1000000
PERCENT == 100
PULSE_LOAD_THRESHOLD == 700
PULSE_INTERVAL_TICKS == 18
PULSE_PEAK == 1000
PULSE_DECAY == 650
PULSE_GAIN == 900
BASE_AMPLITUDE == 700
LOW_LOAD_THRESHOLD == 200
LOW_LOAD_AMPLITUDE == 400
LOW_LOAD_PHASE_SCALE == 700
SIGNAL_MIN == -1000
SIGNAL_MAX == 1000
SIGNAL_RANGE == SIGNAL_MAX - SIGNAL_MIN
START_TICK == 1
PI == 3142
COLOR_LOW == 500
COLOR_HIGH == 750

(* Bounds of the model.                                                     *)
MaxPlotHeight == 8
MaxTick == 3       \* Drawing ticks explored when the environment is free
LongTick == 20     \* Drawing ticks explored under a sustained load

-----------------------------------------------------------------------------
(* Arithmetic helpers.                                                      *)
Min(a, b) == IF a < b THEN a ELSE b
Max(a, b) == IF a > b THEN a ELSE b

\* u16/usize saturating_sub
SatSub(a, b) == IF a > b THEN a - b ELSE 0

\* f32::clamp(lo, hi)
Clamp(v, lo, hi) == IF v < lo THEN lo ELSE IF v > hi THEN hi ELSE v

\* product of two values in thousandths
Mul(a, b) == (a * b) \div SIGNAL_MAX

\* f32::sin of an angle >= 0 in thousandths of a radian
Sin(x) ==
    LET r == x % (2 * PI)
        h == IF r < PI THEN r ELSE r - PI
        p == (h * (PI - h)) \div SIGNAL_MAX
        v == (16 * p * SIGNAL_MAX) \div ((5 * PI * PI) \div SIGNAL_MAX - 4 * p)
    IN  IF r < PI THEN v ELSE 0 - v

\* std::iter::repeat_n(v, n) collected
Repeat(v, n) == [i \in 1..n |-> v]

\* a drain of the last n elements instead of the first n
DropBack(s, n) == [i \in 1..(Len(s) - n) |-> s[i]]

\* drain(0..n): the sequence without its first n elements
DropFront(s, n) == [i \in 1..(Len(s) - n) |-> s[i + n]]

-----------------------------------------------------------------------------
(* read_cpu_usage, main.rs:47-51: raw is global_cpu_usage() in percent.    *)
read_cpu_usage(raw) == Clamp((raw * SIGNAL_MAX) \div PERCENT, 0, SIGNAL_MAX)

\* bands that include their upper boundary
line_color_inclusive(l) ==
    IF l <= COLOR_LOW THEN "Green"
    ELSE IF l <= COLOR_HIGH THEN "Yellow"
    ELSE "Red"

(* line_color, main.rs:53-61                                                *)
line_color(l) ==
    IF l < COLOR_LOW THEN "Green"
    ELSE IF l < COLOR_HIGH THEN "Yellow"
    ELSE "Red"

\* no clamp
clamp_sample_off(value) == value

(* clamp_sample, main.rs:63-65                                              *)
clamp_sample(value) == Clamp(value, SIGNAL_MIN, SIGNAL_MAX)

(* resize_samples, main.rs:188-199                                          *)
resize_samples(s, width, fill) ==
    IF Len(s) = width THEN s
    ELSE IF Len(s) < width THEN s \o Repeat(fill, width - Len(s))
    ELSE DropFront(s, Len(s) - width)

(* The oscillator, main.rs:246-261.                                         *)
phase_delta(l) == PHASE_DELTA_BASE + Mul(l, PHASE_DELTA_LOAD_SCALE)

\* a trigger without the cadence: every tick above the threshold
pulse_trigger_every_tick(l, t) == l > PULSE_LOAD_THRESHOLD

\* main.rs:247: the condition under which pulse is set to PULSE_PEAK
pulse_trigger(l, t) == l > PULSE_LOAD_THRESHOLD /\ t % PULSE_INTERVAL_TICKS = 0

\* main.rs:247-250
next_pulse(l, t, p) ==
    Mul(IF pulse_trigger(l, t) THEN PULSE_PEAK ELSE p, PULSE_DECAY)

\* a low-load override that keeps the pulse term
compute_sample_pulsed(l, ph, pu) ==
    LET base == Mul(BASE_AMPLITUDE, Sin(ph))
        high == base + Mul(pu, PULSE_GAIN)
        low  == Mul(LOW_LOAD_AMPLITUDE, Sin(Mul(ph, LOW_LOAD_PHASE_SCALE)))
    IN  clamp_sample(IF l < LOW_LOAD_THRESHOLD THEN low + Mul(pu, PULSE_GAIN) ELSE high)

\* main.rs:252-257; ph is the phase before the increment, pu the decayed pulse
compute_sample(l, ph, pu) ==
    LET base == Mul(BASE_AMPLITUDE, Sin(ph))
        high == base + Mul(pu, PULSE_GAIN)
        low  == Mul(LOW_LOAD_AMPLITUDE, Sin(Mul(ph, LOW_LOAD_PHASE_SCALE)))
    IN  clamp_sample(IF l < LOW_LOAD_THRESHOLD THEN low ELSE high)

\* main.rs:258-261
next_phase(ph, d) == IF ph + d > PHASE_WRAP THEN 0 ELSE ph + d

(* The window update, main.rs:266-277.                                      *)
\* a fill taken from the tick's new sample instead of the window's last one
fill_of_current(s, smp) == smp

\* main.rs:271
fill_of(s, smp) == IF Len(s) > 0 THEN s[Len(s)] ELSE smp

\* a push that evicts the newest sample instead of the oldest
push_sample_lifo(s, pw, smp) ==
    IF Len(s) >= pw /\ Len(s) > 0
      THEN SubSeq(s, 1, Len(s) - 1) \o <<smp>>
      ELSE Append(s, smp)

\* main.rs:273-276: push, then remove(0) when over capacity
push_sample(s, pw, smp) ==
    LET pushed == Append(s, smp)
    IN  IF Len(pushed) > pw THEN Tail(pushed) ELSE pushed

\* main.rs:266-277
next_samples(s, sd, pw, smp) ==
    IF ~sd THEN Repeat(smp, pw)
    ELSE push_sample(resize_samples(s, pw, fill_of(s, smp)), pw, smp)

-----------------------------------------------------------------------------
(* render, main.rs:75-176.                                                  *)
\* main.rs:86-87
plot_height_of(sz) == SatSub(sz[2], HEADER_ROWS + FOOTER_ROWS)
plot_width_of(sz) == SatSub(sz[1], LEFT_GUTTER)

\* the size checks without the one on the plot width
too_small_no_width(sz) ==
    \/ sz[1] = 0 \/ sz[2] = 0
    \/ plot_height_of(sz) < MIN_PLOT_HEIGHT

\* main.rs:82-90: render returns before queueing anything
too_small(sz) ==
    \/ sz[1] = 0 \/ sz[2] = 0
    \/ plot_height_of(sz) < MIN_PLOT_HEIGHT
    \/ plot_width_of(sz) < MIN_PLOT_WIDTH

\* a row found by truncation instead of rounding
row_of_trunc(smp, ph) ==
    LET twice == 2 * (SIGNAL_MAX - smp) * (ph - 1)
        y     == Max(0, twice \div (2 * SIGNAL_RANGE))
    IN  Min(y, ph - 1)

\* main.rs:102-104: the row of a sample; round() is half away from zero and
\* "as usize" saturates at 0
row_of(smp, ph) ==
    LET twice == 2 * (SIGNAL_MAX - smp) * (ph - 1)
        y     == Max(0, (twice + SIGNAL_RANGE) \div (2 * SIGNAL_RANGE))
    IN  Min(y, ph - 1)

\* connectors that run down to the lower of the two rows
connectors_inclusive(x, prev, y) ==
    LET lo == Min(prev, y)
        hi == Max(prev, y)
    IN  [i \in 1..(hi - lo) |-> <<x, lo + i, "|">>]

\* main.rs:107-115: the connectors pushed for column x (0-based)
connectors(x, prev, y) ==
    LET lo == Min(prev, y)
        hi == Max(prev, y)
    IN  [i \in 1..SatSub(hi - lo, 1) |-> <<x, lo + i, "|">>]

\* main.rs:101-117, one iteration: the marker, then the connectors
column_points(s, x, ph) ==
    LET y == row_of(s[x + 1], ph)
    IN  <<<<x, y, "*">>>> \o
        (IF x > 0 /\ row_of(s[x], ph) # y
           THEN connectors(x, row_of(s[x], ph), y) ELSE <<>>)

\* main.rs:98-117: trace_points for the first n columns
RECURSIVE trace_points(_, _, _)
trace_points(s, n, ph) ==
    IF n = 0 THEN <<>>
    ELSE trace_points(s, n - 1, ph) \o column_points(s, n - 1, ph)

\* main.rs:142-155
gutter_label(row, ph) ==
    IF row = 0 THEN " 1.0|"
    ELSE IF row = ph \div 2 THEN " 0.0|"
    ELSE IF row = SatSub(ph, 1) THEN "-1.0|"
    ELSE "     "

\* no call of render on the latest tick
NoFrame ==
    [called |-> FALSE, ok |-> TRUE, size |-> <<>>, nsamples |-> 0, cmds |-> 0,
     clear |-> FALSE, gutter |-> <<>>, color |-> "", trace |-> <<>>,
     flushed |-> FALSE]

\* main.rs:81: terminal::size() failed inside render
FrameSizeErr == [NoFrame EXCEPT !.called = TRUE, !.ok = FALSE]

\* main.rs:81-176: what render queues for the window s when its own size
\* query returns sz; wr = FALSE when a write to stdout fails
render(s, l, full_clear, sz, wr) ==
    IF too_small(sz)
      THEN [NoFrame EXCEPT !.called = TRUE, !.size = sz, !.nsamples = Len(s)]
      ELSE
        LET ph == plot_height_of(sz)
            pw == plot_width_of(sz)
            tp == trace_points(s, Min(Len(s), pw), ph)
        IN  [called   |-> TRUE,
             ok       |-> wr,
             size     |-> sz,
             nsamples |-> Len(s),
             cmds     |-> (IF full_clear THEN 1 ELSE 0) + 9 + 4 * ph + 2 * Len(tp),
             clear    |-> full_clear,
             gutter   |-> [r \in 1..ph |-> gutter_label(r - 1, ph)],
             color    |-> line_color(l),
             trace    |-> tp,
             flushed  |-> wr]

-----------------------------------------------------------------------------
(* The control loop, main.rs:216-290.                                       *)
\* a budget that stays at the one of the default rate
tick_rate_default(f) == MILLIS_PER_SEC \div FPS_DEFAULT

\* main.rs:219
tick_rate(f) == MILLIS_PER_SEC \div Max(f, 1)

\* an increase without the cap
fps_up_uncapped(f) == f + FPS_STEP

\* main.rs:231 and main.rs:234
fps_up(f) == Min(f + FPS_STEP, FPS_MAX)
fps_down(f) == Max(SatSub(f, FPS_STEP), FPS_MIN)

\* main.rs:224-229
is_quit(ev) ==
    /\ ev.kind = "Key"
    /\ \/ ev.code \in {"q", "Esc"}
       \/ ev.code = "c" /\ ev.ctrl

\* a handler in which every key that is not a decrease key raises the rate
on_key_any_raises(f, ev) ==
    LET up == IF ev.kind = "Key" /\ ev.code \notin {"-", "_"} THEN fps_up(f) ELSE f
    IN  IF ev.kind = "Key" /\ ev.code \in {"-", "_"} THEN fps_down(up) ELSE up

\* main.rs:230-235: fps after a key event that does not quit
on_key(f, ev) ==
    LET up == IF ev.kind = "Key" /\ ev.code \in {"+", "="} THEN fps_up(f) ELSE f
    IN  IF ev.kind = "Key" /\ ev.code \in {"-", "_"} THEN fps_down(up) ELSE up

\* main.rs:245
enters(sz) == sz[2] > HEADER_ROWS + FOOTER_ROWS /\ plot_width_of(sz) > 0

\* a poll issued also when the budget is just used up
Waiting_inclusive == pc = "loop" /\ elapsed <= tick_rate(fps)

\* main.rs:220: the two states of the loop head
Waiting == pc = "loop" /\ elapsed < tick_rate(fps)
Drawing ==
    /\ pc = "loop" /\ elapsed >= tick_rate(fps)
    /\ env.saturate \/ tick <= env.lastTick

\* main.rs:289: saturating_add; where env.saturate holds, env.lastTick stands
\* for u64::MAX
next_tick(t) == IF env.saturate /\ t >= env.lastTick THEN t ELSE t + 1

(* The environment: events event::read can return, readings of the CPU     *)
(* sampler in percent, terminal sizes.                                      *)
KeyCodes == {"q", "Esc", "c", "+", "=", "-", "_", "x"}
Events ==
    [kind : {"Key"}, code : KeyCodes, ctrl : BOOLEAN]
      \cup {[kind |-> "Resize", code |-> "", ctrl |-> FALSE]}
FewEvents == {e \in Events : e.code \in {"q", "x", ""} /\ ~e.ctrl}
Readings == {10, 130}
Sizes == {<<0, 0>>, <<15, 2>>, <<12, 6>>, <<15, 5>>, <<15, 6>>, <<17, 7>>}
SustainedReadings == {-20, 10, 19, 20, 50, 70, 71, 75, 90, 100, 250}
SteadySizes == {<<15, 2>>, <<15, 6>>}

EnvFree ==
    [readings |-> Readings, sizes |-> Sizes, events |-> FewEvents,
     work |-> {0}, offsets |-> {0}, lastTick |-> MaxTick, saturate |-> FALSE,
     calm |-> {}]
EnvKeys ==
    [readings |-> {60}, sizes |-> {<<15, 6>>}, events |-> Events,
     work |-> {0, 20, 120}, offsets |-> {0, 7}, lastTick |-> MaxTick - 1,
     saturate |-> FALSE, calm |-> {}]
\* one reading held for the whole run; in the last environment the load
\* drops to 10% after the tick of the first pulse
EnvSustained ==
    {[readings |-> {r}, sizes |-> SteadySizes, events |-> FewEvents,
      work |-> {0}, offsets |-> {0}, lastTick |-> LongTick,
      saturate |-> FALSE, calm |-> {}] :
        r \in SustainedReadings}
    \cup
    {[readings |-> {90}, sizes |-> {<<15, 6>>}, events |-> FewEvents,
      work |-> {0}, offsets |-> {0}, lastTick |-> LongTick,
      saturate |-> FALSE, calm |-> {10}]}

\* a terminal on which each frame takes longer to draw than any frame budget
\* (at most MILLIS_PER_SEC \div FPS_MIN ms)
EnvSlow ==
    [readings |-> {60}, sizes |-> {<<15, 2>>, <<15, 6>>}, events |-> FewEvents,
     work |-> {120, 121}, offsets |-> {0}, lastTick |-> MaxTick,
     saturate |-> TRUE, calm |-> {}]

\* windows and plot heights for render taken alone: the first three columns
\* take every combination of the sample values, the later ones repeat the
\* third; the window is shorter than, as long as, or longer than the plot
RasterSamples == {SIGNAL_MIN, -LOW_LOAD_AMPLITUDE, 0, 89, BASE_AMPLITUDE, SIGNAL_MAX}
RasterWindows ==
    {<<a, b, c>> \o Repeat(c, k) :
        a \in RasterSamples, b \in RasterSamples, c \in RasterSamples,
        k \in {MIN_PLOT_WIDTH - 6, MIN_PLOT_WIDTH - 3, MIN_PLOT_WIDTH - 1}}
EnvRaster ==
    [readings |-> {60},
     sizes |-> {<<LEFT_GUTTER + MIN_PLOT_WIDTH, h + HEADER_ROWS + FOOTER_ROWS>> :
                   h \in MIN_PLOT_HEIGHT..MaxPlotHeight},
     events |-> FewEvents, work |-> {0}, offsets |-> {0}, lastTick |-> MaxTick,
     saturate |-> FALSE, calm |-> {}]

\* the readings /proc can give on the current tick
readings_now ==
    IF env.calm # {} /\ tick > PULSE_INTERVAL_TICKS THEN env.calm ELSE env.readings

\* polled: the iteration called event::poll (main.rs:221); timeout is the
\* Duration it passed
NoKey ==
    [kind |-> "", code |-> "", ctrl |-> FALSE, fps |-> 0, polled |-> FALSE,
     timeout |-> 0]
Polled == [NoKey EXCEPT !.polled = TRUE, !.timeout = tick_rate(fps) - elapsed]
Seen(ev) ==
    [kind |-> ev.kind, code |-> ev.code, ctrl |-> ev.ctrl, fps |-> fps,
     polled |-> TRUE, timeout |-> tick_rate(fps) - elapsed]

\* frames counts the frames drawn up to 2, which stands for "several"
NoFirst == [computed |-> FALSE, sample |-> 0, frames |-> 0]
note_frame(f, smp, fr) ==
    [computed |-> TRUE,
     sample   |-> IF f.computed THEN f.sample ELSE smp,
     frames   |-> IF fr.size # <<>> /\ ~too_small(fr.size)
                    THEN Min(f.frames + 1, 2) ELSE f.frames]

NoObs ==
    [tick |-> 0, load |-> 0, size |-> <<>>, prev_size |-> <<>>,
     entered |-> FALSE, was_seeded |-> FALSE, before |-> <<>>,
     resized |-> <<>>, sample |-> 0, pulse_before |-> 0, phase_before |-> 0,
     full_clear |-> FALSE]

(* main.rs:202-214: the state when the loop is entered.                     *)
InitMain ==
    /\ pc = "loop" /\ result = "running"
    /\ raw_mode = TRUE /\ alt_screen = TRUE /\ cursor_hidden = TRUE
    /\ fps = FPS_DEFAULT /\ phase = 0 /\ pulse = 0
    /\ samples = <<>> /\ tick = START_TICK /\ seeded = FALSE
    /\ last_size \in env.sizes \cup {<<0, 0>>}
    /\ elapsed = 0 /\ pressed = FALSE
    /\ key = NoKey /\ obs = NoObs /\ resets = {} /\ frame = NoFrame
    /\ first = NoFirst

Init == env = EnvFree /\ InitMain
InitKeys == env = EnvKeys /\ InitMain
InitSustained == env \in EnvSustained /\ InitMain
InitSlow == env = EnvSlow /\ InitMain

(* The inputs of one call of render (main.rs:286): any window, any size.    *)
InitRaster ==
    /\ env = EnvRaster
    /\ pc = "loop" /\ result = "running"
    /\ raw_mode = TRUE /\ alt_screen = TRUE /\ cursor_hidden = TRUE
    /\ fps = FPS_DEFAULT /\ phase = 0 /\ pulse = 0
    /\ samples \in RasterWindows /\ tick = START_TICK /\ seeded = TRUE
    /\ last_size = <<0, 0>>
    /\ elapsed = 0 /\ pressed = FALSE
    /\ key = NoKey /\ obs = NoObs /\ resets = {} /\ frame = NoFrame
    /\ first = NoFirst

term == <<raw_mode, alt_screen, cursor_hidden>>
osc == <<phase, pulse, samples, last_size, seeded, resets, first>>

(* The user presses a quit key; it waits in the input queue until the      *)
(* program calls event::poll.                                               *)
KeyPress ==
    /\ pc = "loop" /\ ~pressed
    /\ pressed' = TRUE
    /\ UNCHANGED <<pc, result, term, fps, osc, tick, elapsed, key, obs, frame, env>>

(* main.rs:221: event::poll returned Ok(false) when the timeout ran out.    *)
PollTimeout ==
    /\ Waiting /\ ~pressed
    /\ elapsed' = elapsed + (tick_rate(fps) - elapsed)
    /\ key' = Polled
    /\ UNCHANGED <<pc, result, term, fps, osc, tick, pressed, obs, frame, env>>

(* main.rs:221-222: event::poll or event::read returned Err.                *)
PollError ==
    /\ Waiting
    /\ pc' = "exited" /\ result' = "err"
    /\ key' = Polled
    /\ UNCHANGED <<term, fps, osc, tick, elapsed, pressed, obs, frame, env>>

(* main.rs:221-237: an event arrived d ms into the poll and does not quit.  *)
HandleEvent(ev, d) ==
    /\ Waiting /\ ~pressed
    /\ d <= tick_rate(fps) - elapsed
    /\ ~is_quit(ev)
    /\ fps' = on_key(fps, ev)
    /\ elapsed' = elapsed + d
    /\ key' = Seen(ev)
    /\ UNCHANGED <<pc, result, term, osc, tick, pressed, obs, frame, env>>

(* main.rs:224-229, 292-294: a quit key, and the terminal is restored.      *)
Quit(ev, d) ==
    /\ Waiting
    /\ d <= tick_rate(fps) - elapsed
    /\ pressed => d = 0
    /\ pressed' = FALSE
    /\ is_quit(ev)
    /\ pc' = "exited" /\ result' = "ok"
    /\ cursor_hidden' = FALSE /\ alt_screen' = FALSE /\ raw_mode' = FALSE
    /\ elapsed' = elapsed + d
    /\ key' = Seen(ev)
    /\ UNCHANGED <<fps, osc, tick, obs, frame, env>>

(* main.rs:292-293: a quit key, and execute! (shown = FALSE) or             *)
(* disable_raw_mode (shown = TRUE) returned Err.                            *)
QuitError(ev, d, shown) ==
    /\ Waiting
    /\ d <= tick_rate(fps) - elapsed
    /\ pressed => d = 0
    /\ pressed' = FALSE
    /\ is_quit(ev)
    /\ pc' = "exited" /\ result' = "err"
    /\ cursor_hidden' = ~shown /\ alt_screen' = ~shown
    /\ elapsed' = elapsed + d
    /\ key' = Seen(ev)
    /\ UNCHANGED <<raw_mode, fps, osc, tick, obs, frame, env>>

(* main.rs:241-277 when the block at main.rs:245 is entered.                *)
Synth(raw, sz) ==
    LET l   == read_cpu_usage(raw)
        pw  == plot_width_of(sz)
        pu  == next_pulse(l, tick, pulse)
        smp == compute_sample(l, phase, pu)
        fc  == sz # last_size
    IN  /\ pulse' = pu
        /\ phase' = next_phase(phase, phase_delta(l))
        /\ last_size' = IF fc THEN sz ELSE last_size
        /\ seeded' = TRUE
        /\ samples' = next_samples(samples, seeded, pw, smp)
        /\ resets' = IF pulse_trigger(l, tick) THEN resets \cup {tick} ELSE resets
        /\ obs' = [tick |-> tick, load |-> l, size |-> sz, prev_size |-> obs.size,
                   entered |-> TRUE, was_seeded |-> seeded, before |-> samples,
                   resized |-> IF seeded
                                 THEN resize_samples(samples, pw, fill_of(samples, smp))
                                 ELSE samples,
                   sample |-> smp, pulse_before |-> pulse,
                   phase_before |-> phase, full_clear |-> fc]

(* main.rs:241-245 when the block is not entered.                           *)
Skip(raw, sz) ==
    /\ obs' = [tick |-> tick, load |-> read_cpu_usage(raw), size |-> sz,
               prev_size |-> obs.size, entered |-> FALSE, was_seeded |-> seeded,
               before |-> samples, resized |-> samples, sample |-> obs.sample,
               pulse_before |-> pulse, phase_before |-> phase,
               full_clear |-> FALSE]
    /\ UNCHANGED osc

(* main.rs:239-289: one Drawing tick that returns to the loop head; sz is   *)
(* the size main reads, rsz the size render reads, w the time it all took.  *)
Draw(raw, sz, rsz, w) ==
    /\ Drawing
    /\ IF enters(sz)
         THEN /\ Synth(raw, sz)
              /\ frame' = render(samples', read_cpu_usage(raw), sz # last_size, rsz, TRUE)
              /\ first' = note_frame(first, obs'.sample, frame')
         ELSE /\ Skip(raw, sz)
              /\ frame' = NoFrame
    /\ tick' = next_tick(tick)
    /\ elapsed' = w
    /\ key' = NoKey
    /\ UNCHANGED <<pc, result, term, fps, pressed, env>>

(* main.rs:243: terminal::size() returned Err.                              *)
DrawSizeError ==
    /\ Drawing
    /\ pc' = "exited" /\ result' = "err"
    /\ key' = NoKey
    /\ UNCHANGED <<term, fps, osc, tick, elapsed, pressed, obs, frame, env>>

(* main.rs:286: render returned Err, from its size query (wrote = FALSE)    *)
(* or from a write to stdout (wrote = TRUE).                                *)
DrawRenderError(raw, sz, rsz, wrote) ==
    /\ Drawing
    /\ enters(sz)
    /\ wrote => ~too_small(rsz)
    /\ Synth(raw, sz)
    /\ frame' = IF wrote
                  THEN render(samples', read_cpu_usage(raw), sz # last_size, rsz, FALSE)
                  ELSE FrameSizeErr
    /\ first' = note_frame(first, obs'.sample, frame')
    /\ pc' = "exited" /\ result' = "err"
    /\ key' = NoKey
    /\ UNCHANGED <<term, fps, tick, elapsed, pressed, env>>

(* main.rs:286 alone: render is called on the window, reads the size rsz   *)
(* and returns Ok.                                                          *)
RenderCall(raw, rsz) ==
    /\ pc = "loop" /\ ~frame.called
    /\ frame' = render(samples, read_cpu_usage(raw), rsz # last_size, rsz, TRUE)
    /\ UNCHANGED <<pc, result, term, fps, osc, tick, elapsed, pressed, key, obs, env>>

NextRaster == \E raw \in env.readings, rsz \in env.sizes : RenderCall(raw, rsz)

(* The steps of the program: everything but the user's key press.          *)
Step ==
    \/ PollTimeout
    \/ PollError
    \/ \E ev \in env.events, d \in env.offsets : HandleEvent(ev, d)
    \/ \E ev \in env.events, d \in env.offsets : Quit(ev, d)
    \/ \E ev \in env.events, d \in env.offsets, shown \in BOOLEAN : QuitError(ev, d, shown)
    \/ \E raw \in readings_now, sz \in env.sizes, rsz \in env.sizes, w \in env.work :
          Draw(raw, sz, rsz, w)
    \/ DrawSizeError
    \/ \E raw \in readings_now, sz \in env.sizes, rsz \in env.sizes, wrote \in BOOLEAN :
          DrawRenderError(raw, sz, rsz, wrote)

Next == KeyPress \/ Step

Spec == Init /\ [][Next]_vars
SpecKeys == InitKeys /\ [][Next]_vars
SpecSustained == InitSustained /\ [][Next]_vars

SpecRaster == InitRaster /\ [][NextRaster]_vars

(* The program is the only thread and always takes its next step.          *)
SpecSlow == InitSlow /\ [][Next]_vars /\ WF_vars(Step)

-----------------------------------------------------------------------------
(* Shorthands for the claims.                                               *)
\* the latest call of render got past its size checks (main.rs:82-90)
Rasterized == frame.called /\ frame.size # <<>> /\ ~too_small(frame.size)

\* the latest Drawing tick ran resize_samples and the push (main.rs:270-277)
Pushed == obs.entered /\ obs.was_seeded

\* the plot width main computed on the latest Drawing tick (main.rs:244)
ObsWidth == plot_width_of(obs.size)

(* C1: at the start of every rasterization the window holds as many        *)
(* samples as the plot width that rasterization uses (terminal width       *)
(* minus the 5-column gutter).                                              *)
C1_WindowFitsPlot ==
    Rasterized => frame.nsamples = frame.size[1] - 5

(* C2: whenever main has returned, by a quit key or by an I/O error, the   *)
(* terminal is restored: cursor shown, alternate screen left, raw mode     *)
(* disabled.                                                                *)
C2_RestoredOnExit ==
    pc = "exited" => ~cursor_hidden /\ ~alt_screen /\ ~raw_mode

(* C3: a push into a window already at capacity (plot width equal to the   *)
(* window's length) yields the old window without its first element, in    *)
(* the same order, followed by the new sample.                              *)
C3_FifoEviction ==
    (Pushed /\ Len(obs.before) = ObsWidth) =>
        /\ Len(samples) = Len(obs.before)
        /\ \A i \in 1..(Len(samples) - 1) : samples[i] = obs.before[i + 1]
        /\ samples[Len(samples)] = obs.sample

\* a push at capacity into a window whose first, second and new samples differ
C3_Witness ==
    /\ Pushed /\ Len(obs.before) = ObsWidth /\ ObsWidth >= 10
    /\ obs.before[1] # obs.before[Len(obs.before)]
    /\ obs.sample # obs.before[Len(obs.before)]
    /\ obs.sample # obs.before[1]

(* C4: when the plot width grows from w to w2 > w while the window holds   *)
(* w samples, the window resize_samples produces (main.rs:272) has length  *)
(* w2 and its last w2 - w entries all equal the last sample the window     *)
(* held before the resize.                                                  *)
C4_GrowRepeatsLast ==
    (Pushed /\ Len(obs.before) < ObsWidth) =>
        /\ Len(obs.resized) = ObsWidth
        /\ \A i \in (Len(obs.before) + 1)..ObsWidth :
              obs.resized[i] = obs.before[Len(obs.before)]

\* a growth by at least two columns whose fill differs from the tick's sample
C4_Witness ==
    /\ Pushed /\ ObsWidth >= Len(obs.before) + 2
    /\ obs.before[Len(obs.before)] # obs.sample
    /\ obs.before[Len(obs.before)] # 0

(* C5: when the plot width shrinks from w to w2 < w, resize_samples        *)
(* discards exactly the w - w2 oldest samples and keeps the w2 most recent *)
(* ones in their order; at an unchanged width it leaves the window as it   *)
(* was.                                                                     *)
C5_ShrinkDropsOldest ==
    Pushed =>
        /\ Len(obs.before) > ObsWidth =>
              /\ Len(obs.resized) = ObsWidth
              /\ \A i \in 1..ObsWidth :
                    obs.resized[i] = obs.before[i + (Len(obs.before) - ObsWidth)]
        /\ Len(obs.before) = ObsWidth => obs.resized = obs.before

\* a shrink that drops a sample different from the ones it keeps
C5_Witness ==
    /\ Pushed /\ Len(obs.before) > ObsWidth
    /\ obs.before[1] # obs.before[Len(obs.before)]
    /\ obs.resized[ObsWidth] # obs.resized[1]

\* the latest loop iteration read a key event that did not quit
KeyHandled == pc = "loop" /\ key.kind = "Key"

(* C6: fps stays within [10, 60] whatever keys are pressed; an increase    *)
(* key (+ or =) raises it by exactly 5 unless it is already 60, a decrease *)
(* key (- or _) lowers it by exactly 5 unless it is already 10, and at the *)
(* bound the key leaves it unchanged.                                       *)
C6_FpsBounds ==
    /\ fps >= 10 /\ fps <= 60
    /\ (KeyHandled /\ key.code \in {"+", "="}) =>
          fps = IF key.fps = 60 THEN 60 ELSE key.fps + 5
    /\ (KeyHandled /\ key.code \in {"-", "_"}) =>
          fps = IF key.fps = 10 THEN 10 ELSE key.fps - 5

\* an increase key pressed at 60 and, before it, the lower bound reached
C6_Witness ==
    /\ KeyHandled /\ key.code = "=" /\ key.fps = 60 /\ fps = 60
    /\ tick > START_TICK

\* the sampler reads 90% on every tick of this run
Sustained90 == env.readings = {90} /\ env.calm = {}

C8_SamplesInRange ==
    /\ \A i \in 1..Len(samples) : samples[i] >= -1000 /\ samples[i] <= 1000
    /\ obs.load >= 0 /\ obs.load <= 1000

\* the window holds a sample that the pulse pushed up to the upper limit
C8_Witness ==
    /\ pulse > 0 /\ obs.entered
    /\ obs.sample = 1000 /\ samples[Len(samples)] = 1000

(* C9: when a frame is drawn on a tick that has a preceding tick, the      *)
(* frame starts with a full-screen clear if and only if the size polled on *)
(* this tick differs from the size polled on the preceding tick.  Stated   *)
(* for the frames render draws at the size main polled, on ticks after the *)
(* window was first seeded.                                                 *)
C9_ClearIffSizeChanged ==
    (/\ Rasterized /\ frame.size = obs.size
     /\ obs.was_seeded /\ obs.prev_size # <<>>) =>
        (frame.clear <=> obs.size # obs.prev_size)

(* C10: when the size render reads is 0x0, or leaves a plot height         *)
(* (height - 2) below 4 or a plot width (width - 5) below 10, render       *)
(* queues no command at all, does not flush, returns Ok, and the tick      *)
(* completes: the tick counter advances and the loop goes on.               *)
C10_NothingDrawnWhenTooSmall ==
    (/\ frame.called /\ frame.size # <<>>
     /\ \/ frame.size = <<0, 0>>
        \/ frame.size[2] - 2 < 4
        \/ frame.size[1] - 5 < 10) =>
        /\ frame.cmds = 0 /\ ~frame.clear /\ ~frame.flushed
        /\ frame.gutter = <<>> /\ frame.trace = <<>> /\ frame.color = ""
        /\ frame.ok
        /\ tick = obs.tick + 1

\* render was called at a size wide enough but one row too low, the size
\* main polled, and the loop is back at its head
C10_Witness ==
    /\ frame.called /\ frame.size = <<15, 5>> /\ obs.size = frame.size
    /\ frame.cmds = 0 /\ pc = "loop" /\ tick = obs.tick + 1
    /\ Len(samples) = 10

(* C12: on every tick that computes a sample at a load below 0.2, the      *)
(* sample is within [-0.4, 0.4] and is the value the same phase gives for   *)
(* any other pulse value.                                                   *)
C12_LowLoadIgnoresPulse ==
    obs.entered /\ obs.load < LOW_LOAD_THRESHOLD =>
        /\ obs.sample >= -LOW_LOAD_AMPLITUDE /\ obs.sample <= LOW_LOAD_AMPLITUDE
        /\ \A pu \in {0, pulse, obs.pulse_before, PULSE_PEAK,
                       Mul(PULSE_PEAK, PULSE_DECAY)} :
               compute_sample(obs.load, obs.phase_before, pu) = obs.sample

\* a low-load tick computed its sample while the pulse was still decaying
C12_Witness ==
    /\ obs.entered /\ obs.load < LOW_LOAD_THRESHOLD
    /\ pulse > 0 /\ obs.sample # 0

(* C13: the colour set for the trace of a frame is green for a load in     *)
(* [0, 0.5), yellow for [0.5, 0.75) and red for [0.75, 1.0]; it is set once *)
(* per frame, for all the trace glyphs.                                     *)
C13_ColorBands ==
    (Rasterized /\ frame.ok) =>
        /\ Len(frame.trace) > 0
        /\ (obs.load >= 0 /\ obs.load < 500) => frame.color = "Green"
        /\ (obs.load >= 500 /\ obs.load < 750) => frame.color = "Yellow"
        /\ (obs.load >= 750 /\ obs.load <= 1000) => frame.color = "Red"
        /\ frame.color \in {"Green", "Yellow", "Red"}

\* a frame drawn at a load of exactly 0.75
C13_Witness ==
    /\ Rasterized /\ frame.ok /\ obs.load = 750
    /\ frame.color = "Red" /\ Len(frame.trace) > 0

\* render, when called on the latest tick, read the size main had polled
SameSize == frame.called => frame.size = obs.size

(* C14: the window is changed on the ticks that draw a frame and on no     *)
(* other: a tick that draws a frame pushes its one sample, and a tick on    *)
(* which nothing is drawn because the plot is below 4 rows or 10 columns    *)
(* leaves the window as it was.                                             *)
C14_WindowChangesOnlyWithFrame ==
    (obs.tick > 0 /\ SameSize) =>
        /\ Rasterized =>
              /\ samples[Len(samples)] = obs.sample
              /\ obs.was_seeded =>
                    samples = push_sample(obs.resized, ObsWidth, obs.sample)
        /\ ~Rasterized => samples = obs.before

(* C17: the first frame drawn in a run shows a window whose every entry    *)
(* is the first sample the run computed, whatever sizes earlier ticks saw.  *)
C17_FirstFrameShowsFirstSample ==
    (Rasterized /\ SameSize /\ first.frames = 1) =>
        \A i \in 1..Len(samples) : samples[i] = first.sample

\* the trace points of the latest frame at column x with glyph ch, and
\* the rows they are on
PointsAt(x, ch) ==
    {i \in 1..Len(frame.trace) : frame.trace[i][1] = x /\ frame.trace[i][3] = ch}
RowsAt(x, ch) == {frame.trace[i][2] : i \in PointsAt(x, ch)}
MarkerRow(x) == CHOOSE r \in RowsAt(x, "*") : TRUE
\* the columns render walks: one per sample, up to the plot width
TraceColumns == Min(frame.nsamples, plot_width_of(frame.size))

(* C18: for every window and plot size the trace has exactly one '*' in    *)
(* each column, on a row in [0, plot_height - 1]; a column x >= 1 whose row *)
(* differs from the previous column's has one '|' on each row strictly      *)
(* between the two rows and no other; column 0 and columns whose row equals *)
(* or is next to the previous one have no '|'.                              *)
C18_MarkersAndConnectors ==
    Rasterized =>
        /\ \A i \in 1..Len(frame.trace) :
              /\ frame.trace[i][1] \in 0..(TraceColumns - 1)
              /\ frame.trace[i][3] \in {"*", "|"}
        /\ \A x \in 0..(TraceColumns - 1) :
              /\ Cardinality(PointsAt(x, "*")) = 1
              /\ MarkerRow(x) \in 0..(plot_height_of(frame.size) - 1)
        /\ PointsAt(0, "|") = {}
        /\ \A x \in 1..(TraceColumns - 1) :
              LET lo == Min(MarkerRow(x - 1), MarkerRow(x))
                  hi == Max(MarkerRow(x - 1), MarkerRow(x))
              IN  /\ RowsAt(x, "|") = {r \in 0..hi : lo < r /\ r < hi}
                  /\ Cardinality(PointsAt(x, "|")) = Cardinality(RowsAt(x, "|"))

\* a frame whose trace falls by more than one row and then stays level
C18_Witness ==
    /\ Rasterized
    /\ Cardinality(RowsAt(1, "|")) >= 2
    /\ RowsAt(2, "|") = {} /\ MarkerRow(2) = MarkerRow(1) + 1
    /\ RowsAt(3, "|") = {} /\ MarkerRow(3) = MarkerRow(2)

(* C20: for every plot height >= 4 the labels " 1.0|", " 0.0|" and "-1.0|"  *)
(* are on three distinct rows, 0, plot_height / 2 and plot_height - 1, and  *)
(* each is on the row where the trace marker of the sample it names is      *)
(* drawn.                                                                   *)
C20_LabelsOnSampleRows ==
    (Rasterized /\ plot_height_of(frame.size) >= 4) =>
        LET ph == plot_height_of(frame.size)
            rows(label) == {r \in 1..ph : frame.gutter[r] = label}
        IN  /\ rows(" 1.0|") = {1}
            /\ rows(" 0.0|") = {ph \div 2 + 1}
            /\ rows("-1.0|") = {ph}
            /\ Cardinality({1, ph \div 2 + 1, ph}) = 3
            /\ \A x \in 0..(TraceColumns - 1) :
                  /\ samples[x + 1] = 1000 => frame.gutter[MarkerRow(x) + 1] = " 1.0|"
                  /\ samples[x + 1] = 0 => frame.gutter[MarkerRow(x) + 1] = " 0.0|"
                  /\ samples[x + 1] = -1000 => frame.gutter[MarkerRow(x) + 1] = "-1.0|"

\* a frame of odd and one of even plot height would both do; this one has
\* an even height, where 0.0 falls half-way between two rows
C20_Witness ==
    /\ Rasterized /\ plot_height_of(frame.size) = 6
    /\ samples[1] = 1000 /\ samples[2] = 0 /\ samples[3] = -1000
    /\ MarkerRow(0) = 0 /\ MarkerRow(1) = 3 /\ MarkerRow(2) = 5

\* a step in which the loop reads a key event
KeyStep == pc = "loop" /\ ~KeyPress /\ key'.polled /\ key'.kind = "Key"
QuitKey(k) == k.code \in {"q", "Esc"} \/ (k.code = "c" /\ k.ctrl)
RateKey(k) == k.code \in {"+", "=", "-", "_"}

(* C19: a step that handles a key event is taken in Waiting and leaves     *)
(* phase, pulse, the window, the tick counter, the last-draw time and the   *)
(* recorded terminal size as they were; fps changes only on a rate key, the *)
(* loop stops only on a quit key, and any other key changes neither.        *)
C19_KeysLeaveAnimationState ==
    [][KeyStep =>
        /\ elapsed < 1000 \div fps
        /\ UNCHANGED <<phase, pulse, samples, tick, last_size, seeded>>
        /\ elapsed' >= elapsed
        /\ fps' # fps => RateKey(key') /\ ~QuitKey(key') /\ pc' = "loop"
        /\ pc' # "loop" => QuitKey(key') /\ fps' = fps
        /\ (~RateKey(key') /\ ~QuitKey(key')) => fps' = fps /\ pc' = "loop"]_vars

\* a rate key was handled part-way through a wait, after a frame was drawn
C19_Witness ==
    /\ KeyHandled /\ key.code = "+" /\ fps = key.fps + 5
    /\ obs.tick >= 1 /\ Len(samples) > 0 /\ elapsed > 0

\* a step of the Waiting branch (main.rs:221-237) and one of the Drawing
\* branch (main.rs:239-289)
PollStep == pc = "loop" /\ ~KeyPress /\ key'.polled
DrawStep == pc = "loop" /\ ~KeyPress /\ ~key'.polled

\* what C15 says of the poll apart from where control goes afterwards
PollWithinBudget ==
    /\ elapsed < 1000 \div fps
    /\ key'.timeout = 1000 \div fps - elapsed
    /\ key'.timeout > 0 /\ key'.timeout <= 1000 \div fps

RateChanged == KeyHandled /\ fps # key.fps

(* C16, as claimed: after a rate key handled during a wait, the frame      *)
(* being waited for is drawn when the budget of the old fps runs out.       *)
C16_DrawnAtOldDeadline ==
    [][RateChanged =>
          /\ DrawStep => elapsed = 1000 \div key.fps
          /\ PollTimeout => elapsed' = 1000 \div key.fps]_vars

(* C16, amended: the poll that was in flight ran on the budget of the old  *)
(* fps; from the next loop head on the budget is that of the new fps: the   *)
(* frame being waited for is drawn once 1000/new fps ms have passed since   *)
(* the last frame, at once if they already have, and a further poll waits   *)
(* for the rest of the new budget.                                          *)
C16_RateKeyMovesDeadline ==
    [][RateChanged =>
          /\ key.timeout <= 1000 \div key.fps /\ elapsed <= 1000 \div key.fps
          /\ DrawStep => elapsed >= 1000 \div fps
          /\ PollStep => elapsed < 1000 \div fps
                          /\ key'.timeout = 1000 \div fps - elapsed
          /\ PollTimeout => elapsed' = 1000 \div fps]_vars

\* an increase key arrived after the new budget had run out and before the
\* old one had
C16_Witness ==
    /\ RateChanged /\ key.code = "+"
    /\ elapsed >= 1000 \div fps /\ elapsed < 1000 \div key.fps

(* C11: once a quit key has been pressed, the loop eventually reads it and *)
(* main returns.                                                            *)
C11_QuitKeyStopsLoop == pressed ~> pc = "exited"

=============================================================================
